---- MODULE Spec2Model ----
(***************************************************************************)
(* Model of the devops_canary pipeline:                                    *)
(*   lambda/crawler.py       - the prober (handler, _http_get)             *)
(*   lambda/alarm_logger.py  - the alarm logger (handler,                  *)
(*                             _extract_url_from_dimensions)               *)
(*   devops_canary_stack.py  - the alarm configuration (av_alarm,          *)
(*                             lt_alarm, their SNS actions, the table)     *)
(* The specifications share the variables; each leaves the variables of   *)
(* the components it does not run unchanged:                               *)
(*   SpecCrawler, SpecLogger, SpecAlarm - one component on its own         *)
(*   SpecPipeline, FairPipeline         - crawler, alarms and logger       *)
(*   SpecPeriod                         - many crawler runs in one period  *)
(*   SpecConcurrent                     - concurrent logger invocations    *)
(*   SpecStack                          - the construct ids of the alarms  *)
(***************************************************************************)
EXTENDS Integers, Sequences, FiniteSets, TLC

VARIABLES
    sites,      \* crawler: the target list read from sites.json
    cpc,        \* crawler: "idle" | "loop" | "returned" | "raised" | "timed_out"
    ci,         \* crawler: 1-based index of the next target of the for loop
    results,    \* crawler: the summary list built by the run
    putCalls,   \* metric sink: the put_metric_data calls of this run, in order
    probes,     \* history: what each probed server did in this run, in order
    elapsed,    \* crawler: milliseconds this invocation has been running
    lpc,        \* logger: "idle" | "loop" | "returned" | "raised"
    lleft,      \* logger: records of the event not yet processed
    clock,      \* logger: the last reading of datetime.now()
    table,      \* record store: the items of the DynamoDB table
    nPut,       \* history: number of successful put_item calls
    last,       \* history: the last record processed and what became of it
    alarmState, \* evaluator: state of each alarm
    snsEvents,  \* notifier: the alarm notifications published, in order
    nTicks,     \* history: number of evaluation ticks so far
    lastTick,   \* history: the last tick (alarm, datapoint, previous state)
    recent,     \* evaluator: per alarm, whether the periods before this one
                \* that still count (evaluation_periods - 1 of them) breached
    mode,       \* environment: per target, what its server does with a probe
                \* and whether the publish call for it can fail
    sink,       \* metric sink: per metric and url, sum and number of the
                \* samples published in the current period
    period,     \* number of periods that are over
    runs,       \* crawler invocations in the current period
    lastRun,    \* history: how the last crawler invocation ended
    lastPeriod, \* history: the samples of the period that ended last
    inbox,      \* notifier: notifications not yet delivered to the logger
    anyPubFailed, \* history: some put_metric_data call has failed
    inv,        \* logger: the concurrent invocations, each with its position
                \* in the handler and its locals
    stack       \* synthesis of the stack: position in the loop over the
                \* targets and the construct ids defined so far

cvars == <<sites, cpc, ci, results, putCalls, probes, elapsed>>
lvars == <<lpc, lleft, clock, table, nPut, last>>
avars == <<alarmState, snsEvents, nTicks, lastTick, recent>>
pvars == <<mode, sink, period, runs, lastRun, lastPeriod, inbox, anyPubFailed>>
kvars == <<inv>>
svars == <<stack>>
ovars == <<pvars, kvars, svars>>
vars  == <<sites, cpc, ci, results, putCalls, probes, elapsed,
           lpc, lleft, clock, table, nPut, last,
           alarmState, snsEvents, nTicks, lastTick, recent,
           mode, sink, period, runs, lastRun, lastPeriod, inbox, anyPubFailed,
           inv, stack>>

(***************************************************************************)
(* Bounds of the model                                                     *)
(***************************************************************************)
MaxSites == 3

Targets == {"https://a.example", "https://b.example", "https://c.example"}

\* every sequence over S of length at most n
RECURSIVE SeqsUpTo(_, _)
SeqsUpTo(S, n) ==
    IF n = 0 THEN {<<>>}
    ELSE LET shorter == SeqsUpTo(S, n - 1)
         IN  shorter \cup {Append(s, x) : s \in {t \in shorter : Len(t) = n - 1}, x \in S}

(***************************************************************************)
(* crawler.py                                                              *)
(***************************************************************************)
NAMESPACE == "WebsiteHealth"

StatusCodes == {200, 204, 404}
Latencies == {120, 1501}
TransportFailures == {"timeout", "dns", "refused", "tls"}

\* What the probed server can do with one GET.
ServerOutcomes ==
    {[kind |-> "status", code |-> c, ms |-> l] : c \in StatusCodes, l \in Latencies}
    \cup {[kind |-> "fail", why |-> w] : w \in TransportFailures}

\* urllib.request.urlopen: a 2xx response is returned; any other final status
\* is raised as HTTPError by the default error processor; a transport failure
\* is raised as URLError / timeout.
_http_get(out) ==
    IF out.kind = "status" /\ out.code >= 200 /\ out.code < 300
    THEN [raised |-> FALSE, code |-> out.code, latency |-> out.ms]
    ELSE [raised |-> TRUE]

\* line 10: the default of timeout_sec, in seconds
timeout_sec == 10

\* devops_canary_stack.py line 50: the Lambda runtime ends an invocation of
\* the crawler that is still running after this many seconds
CrawlerTimeoutSec == 30

\* Milliseconds one call of _http_get takes (lines 11-16): a response takes
\* its latency, a server that never answers takes the whole timeout_sec, any
\* other transport failure is immediate at this resolution.
Duration(out) ==
    IF out.kind = "status" THEN out.ms
    ELSE IF out.why = "timeout" THEN timeout_sec * 1000
    ELSE 0

\* faulty variant of ProbeLocals: every returned response counts as up
ProbeLocals_AnyResponseIsUp(out) ==
    LET r == _http_get(out)
    IN  IF r.raised
        THEN [status_val |-> 0, latency_ms |-> 0]
        ELSE [status_val |-> 1, latency_ms |-> r.latency]

\* lines 27-36: the defaults, the try block and its except clause
ProbeLocals(out) ==
    LET r == _http_get(out)
    IN  IF r.raised
        THEN [status_val |-> 0, latency_ms |-> 0]
        ELSE [status_val |-> IF r.code = 200 THEN 1 ELSE 0, latency_ms |-> r.latency]

\* faulty variant of MetricData: no Latency sample for a target that is down
MetricData_SkipLatencyWhenDown(url, status_val, latency_ms) ==
    <<[MetricName |-> "Availability", Dimensions |-> <<[Name |-> "URL", Value |-> url]>>,
       Value |-> status_val, Unit |-> "Count"]>>
    \o (IF status_val = 0 THEN <<>>
        ELSE <<[MetricName |-> "Latency", Dimensions |-> <<[Name |-> "URL", Value |-> url]>>,
                Value |-> latency_ms, Unit |-> "Milliseconds"]>>)

\* lines 39-52: the batch of two samples of one target
MetricData(url, status_val, latency_ms) ==
    <<[MetricName |-> "Availability", Dimensions |-> <<[Name |-> "URL", Value |-> url]>>,
       Value |-> status_val, Unit |-> "Count"],
      [MetricName |-> "Latency", Dimensions |-> <<[Name |-> "URL", Value |-> url]>>,
       Value |-> latency_ms, Unit |-> "Milliseconds"]>>

\* lines 19-24: a scheduled invocation starts; sites.json is the static list
CrawlerStart ==
    /\ cpc \in {"idle", "returned", "raised", "timed_out"}
    /\ cpc' = "loop"
    /\ ci' = 1
    /\ results' = <<>>
    /\ putCalls' = <<>>
    /\ probes' = <<>>
    /\ elapsed' = 0
    /\ UNCHANGED <<sites, lvars, avars, ovars>>

\* lines 26-57: one iteration of the for loop. put_metric_data (line 55) is
\* outside the try block: when it raises, the exception leaves the handler.
\* The probes run one after the other, so their durations add up.
CrawlerIterate ==
    /\ cpc = "loop"
    /\ ci <= Len(sites)
    /\ \E out \in ServerOutcomes, pubOk \in BOOLEAN :
         LET url == sites[ci]
             loc == ProbeLocals(out)
             metric_data == MetricData(url, loc.status_val, loc.latency_ms)
         IN  /\ elapsed + Duration(out) < CrawlerTimeoutSec * 1000
             /\ elapsed' = elapsed + Duration(out)
             /\ probes' = Append(probes, out)
             /\ putCalls' = Append(putCalls, [Namespace |-> NAMESPACE,
                                              MetricData |-> metric_data,
                                              ok |-> pubOk])
             /\ IF pubOk
                THEN /\ results' = Append(results, [url |-> url,
                                                    status |-> loc.status_val,
                                                    latency_ms |-> loc.latency_ms])
                     /\ ci' = ci + 1
                     /\ cpc' = "loop"
                ELSE /\ cpc' = "raised"
                     /\ UNCHANGED <<results, ci>>
    /\ UNCHANGED <<sites, lvars, avars, ovars>>

\* lines 59-60: the loop is over, the handler returns statusCode 200
CrawlerReturn ==
    /\ cpc = "loop"
    /\ ci > Len(sites)
    /\ cpc' = "returned"
    /\ UNCHANGED <<sites, ci, results, putCalls, probes, elapsed, lvars, avars, ovars>>

\* devops_canary_stack.py line 50: the invocation is still inside _http_get
\* (line 31) when its 30 seconds are over, and the runtime ends it there: the
\* target being probed is not published, the ones after it are not probed.
CrawlerTimedOut ==
    /\ cpc = "loop"
    /\ ci <= Len(sites)
    /\ \E out \in ServerOutcomes : elapsed + Duration(out) >= CrawlerTimeoutSec * 1000
    /\ cpc' = "timed_out"
    /\ elapsed' = CrawlerTimeoutSec * 1000
    /\ UNCHANGED <<sites, ci, results, putCalls, probes, lvars, avars, ovars>>

CrawlerNext == CrawlerStart \/ CrawlerIterate \/ CrawlerReturn \/ CrawlerTimedOut

(***************************************************************************)
(* Text.  A string is a sequence of runs [ch, n]: the first n characters   *)
(* of ch repeated for ever, so that a reason of 4000 characters and the    *)
(* slices [:1000] and [:3500] keep their real lengths.                     *)
(***************************************************************************)
Lit(t) == IF Len(t) = 0 THEN <<>> ELSE <<[ch |-> t, n |-> Len(t)]>>

Rep(c, k) == IF k = 0 THEN <<>> ELSE <<[ch |-> c, n |-> k]>>

\* len(s), summed over the two halves of the runs
RECURSIVE StrLen(_)
StrLen(s) ==
    IF s = <<>> THEN 0
    ELSE IF Len(s) = 1 THEN s[1].n
    ELSE LET half == Len(s) \div 2
         IN  StrLen(SubSeq(s, 1, half)) + StrLen(SubSeq(s, half + 1, Len(s)))

\* s[:k], taken from the first half of the runs and, when k reaches beyond
\* it, from the second half too
RECURSIVE Slice(_, _)
Slice(s, k) ==
    IF k = 0 \/ s = <<>> THEN <<>>
    ELSE IF Len(s) = 1
         THEN IF s[1].n <= k THEN s ELSE <<[ch |-> s[1].ch, n |-> k]>>
    ELSE LET half == Len(s) \div 2
             head == SubSeq(s, 1, half)
             used == StrLen(head)
         IN  IF k <= used THEN Slice(head, k)
             ELSE head \o Slice(SubSeq(s, half + 1, Len(s)), k - used)

DigitChars == <<"0", "1", "2", "3", "4", "5", "6", "7", "8", "9">>

RECURSIVE Digits(_)
Digits(k) ==
    IF k < 10 THEN Lit(DigitChars[k + 1])
    ELSE Digits(k \div 10) \o Lit(DigitChars[(k % 10) + 1])

(***************************************************************************)
(* JSON values as json.loads builds them (Python str, None, int, list,     *)
(* dict with its keys in order).                                           *)
(***************************************************************************)
JStr(s) == [t |-> "str", s |-> s]
JNull == [t |-> "null"]
JNum(k) == [t |-> "num", k |-> k]
JList(items) == [t |-> "list", items |-> items]
JObj(pairs) == [t |-> "obj", pairs |-> pairs]
KV(k, v) == [k |-> k, v |-> v]

IsDict(v) == v.t = "obj"

HasKey(d, key) == \E i \in DOMAIN d.pairs : d.pairs[i].k = key

\* dict.get(key, default)
DictGet(d, key, default) ==
    IF HasKey(d, key)
    THEN d.pairs[CHOOSE i \in DOMAIN d.pairs : d.pairs[i].k = key].v
    ELSE default

\* Python truth value of a loaded JSON value
Falsy(v) ==
    \/ v.t = "null"
    \/ v.t = "str" /\ v.s = <<>>
    \/ v.t = "num" /\ v.k = 0
    \/ v.t = "list" /\ v.items = <<>>
    \/ v.t = "obj" /\ v.pairs = <<>>

\* a or b
PyOr(a, b) == IF Falsy(a) THEN b ELSE a

\* the escaping json.dumps applies inside a string: a double quote doubles up
Escape(s) ==
    [i \in DOMAIN s |-> IF s[i].ch = "\"" THEN [ch |-> "\\\"", n |-> 2 * s[i].n] ELSE s[i]]

\* json.dumps(v) with the default separators ", " and ": "
RECURSIVE Dumps(_)
RECURSIVE DumpsItems(_)
RECURSIVE DumpsPairs(_)
Dumps(v) ==
    CASE v.t = "str"  -> Lit("\"") \o Escape(v.s) \o Lit("\"")
      [] v.t = "null" -> Lit("null")
      [] v.t = "num"  -> Digits(v.k)
      [] v.t = "list" -> Lit("[") \o DumpsItems(v.items) \o Lit("]")
      [] v.t = "obj"  -> Lit("{") \o DumpsPairs(v.pairs) \o Lit("}")

DumpsItems(items) ==
    IF items = <<>> THEN <<>>
    ELSE Dumps(items[1])
         \o (IF Len(items) > 1 THEN Lit(", ") \o DumpsItems(Tail(items)) ELSE <<>>)

DumpsPairs(pairs) ==
    IF pairs = <<>> THEN <<>>
    ELSE Lit("\"") \o Lit(pairs[1].k) \o Lit("\": ") \o Dumps(pairs[1].v)
         \o (IF Len(pairs) > 1 THEN Lit(", ") \o DumpsPairs(Tail(pairs)) ELSE <<>>)

\* repr(v), which str() gives for None, numbers, lists and dicts
RECURSIVE PyRepr(_)
RECURSIVE ReprItems(_)
RECURSIVE ReprPairs(_)
PyRepr(v) ==
    CASE v.t = "str"  -> Lit("'") \o v.s \o Lit("'")
      [] v.t = "null" -> Lit("None")
      [] v.t = "num"  -> Digits(v.k)
      [] v.t = "list" -> Lit("[") \o ReprItems(v.items) \o Lit("]")
      [] v.t = "obj"  -> Lit("{") \o ReprPairs(v.pairs) \o Lit("}")

ReprItems(items) ==
    IF items = <<>> THEN <<>>
    ELSE PyRepr(items[1])
         \o (IF Len(items) > 1 THEN Lit(", ") \o ReprItems(Tail(items)) ELSE <<>>)

ReprPairs(pairs) ==
    IF pairs = <<>> THEN <<>>
    ELSE Lit("'") \o Lit(pairs[1].k) \o Lit("': ") \o PyRepr(pairs[1].v)
         \o (IF Len(pairs) > 1 THEN Lit(", ") \o ReprPairs(Tail(pairs)) ELSE <<>>)

\* str(v)
PyStr(v) == IF v.t = "str" THEN v.s ELSE PyRepr(v)

(***************************************************************************)
(* alarm_logger.py                                                         *)
(***************************************************************************)
MaxRecords == 2     \* records of one SNS event
MaxPuts == 2        \* put_item calls that succeed in one behaviour
MaxClock == MaxPuts \* readings of datetime.now() told apart

\* datetime.now() (line 21) reads the wall clock of whichever instance runs the
\* handler: a reading is the previous one again (same microsecond on another
\* instance, a clock stepped back) or a later one. isoformat() is one-to-one,
\* so the reading itself stands for the Timestamp string.
Readings(prev) == {prev, prev + 1}

ReasonLimit == 1000
RawLimit == 3500

\* The alarm notifications CloudWatch sends, as the JSON object of the message.
Dimension(nameKey, valueKey, url) ==
    JObj(<<KV(nameKey, JStr(Lit("URL"))), KV(valueKey, JStr(Lit(url)))>>)

\* a dimension of another name, as any CloudWatch metric may carry
OtherDimension(nameKey, valueKey) ==
    JObj(<<KV(nameKey, JStr(Lit("Region"))), KV(valueKey, JStr(Lit("us-east-1")))>>)

AlarmJson(alarmName, state, reason, metric, dims) ==
    JObj(<<KV("AlarmName", JStr(Lit(alarmName))),
           KV("NewStateValue", JStr(Lit(state))),
           KV("NewStateReason", JStr(reason)),
           KV("Trigger", JObj(<<KV("MetricName", JStr(Lit(metric))),
                                KV("Namespace", JStr(Lit(NAMESPACE))),
                                KV("Dimensions", dims)>>))>>)

ShortReason == Lit("Threshold Crossed: 1 datapoint was less than the threshold")

\* A record of event["Records"], as the Lambda runtime hands it over:
\*   sns     "absent" (no "Sns" key) | "nodict" ("Sns" is a string) | "dict"
\*   message "absent" | "text" (a str that is no JSON) | "json" (a str that
\*           json.loads parses to .value)
SnsAbsent == [sns |-> "absent"]
SnsNoDict == [sns |-> "nodict"]
NoMessage == [sns |-> "dict", message |-> "absent"]
TextMessage(text) == [sns |-> "dict", message |-> "text", text |-> text]
JsonMessage(v) == [sns |-> "dict", message |-> "json", value |-> v]

WellFormedRecords ==
    << JsonMessage(AlarmJson("AvailAlarmA", "ALARM", ShortReason, "Availability",
                             JList(<<Dimension("name", "value", "https://a.example")>>))),
       JsonMessage(AlarmJson("AvailAlarmA", "OK", Rep("x", ReasonLimit), "Availability",
                             JList(<<Dimension("Name", "Value", "https://a.example")>>))),
       JsonMessage(AlarmJson("LatencyAlarmB", "ALARM", Rep("x", ReasonLimit + 1), "Latency",
                             JList(<<Dimension("name", "Value", "https://b.example")>>))),
       JsonMessage(AlarmJson("LatencyAlarmB", "OK", Rep("\"", RawLimit), "Latency",
                             JList(<<Dimension("Name", "value", "https://b.example")>>))) >>

\* a notification of an alarm on a metric without URL dimension
NoUrlRecord ==
    JsonMessage(AlarmJson("AvailAlarmA", "ALARM", ShortReason, "Availability",
                          JList(<<OtherDimension("name", "value")>>)))

\* a notification whose URL dimension comes after a dimension of another name
SecondDimensionRecord ==
    JsonMessage(AlarmJson("LatencyAlarmB", "OK", ShortReason, "Latency",
                          JList(<<OtherDimension("Name", "Value"),
                                  Dimension("Name", "Value", "https://b.example")>>)))

MalformedRecords ==
    << SnsAbsent,
       NoMessage,
       TextMessage(Lit("not json")),
       JsonMessage(JList(<<JNum(1), JNum(2)>>)),
       JsonMessage(JNull),
       JsonMessage(JObj(<<KV("AlarmName", JStr(Lit("AvailAlarmA"))), KV("Trigger", JNull)>>)),
       JsonMessage(JObj(<<KV("AlarmName", JNum(7)), KV("NewStateReason", JNum(12)),
                          KV("Trigger", JObj(<<KV("Dimensions", JNull)>>))>>)),
       JsonMessage(AlarmJson("AvailAlarmA", "ALARM", ShortReason, "Availability", JNum(5))),
       JsonMessage(AlarmJson("AvailAlarmA", "ALARM", ShortReason, "Availability",
                             JList(<<JStr(Lit("URL"))>>))),
       JsonMessage(AlarmJson("AvailAlarmA", "ALARM", ShortReason, "Availability",
                             JObj(<<KV("URL", JStr(Lit("https://a.example")))>>))),
       SnsNoDict >>

RecordInputs == WellFormedRecords \o MalformedRecords

IsMalformed(r) == \E i \in DOMAIN MalformedRecords : MalformedRecords[i] = r

Raised == [raised |-> TRUE]
Value(v) == [raised |-> FALSE, value |-> v]

\* lines 14-19: the try block and its except clause. record["Sns"]["Message"]
\* raises KeyError / TypeError and json.loads raises JSONDecodeError, all
\* caught; the except clause itself calls .get on record["Sns"], which raises
\* AttributeError when "Sns" is present and is no dict.
ParseRecord(record) ==
    CASE record.sns = "absent" -> Value(JObj(<<KV("RawMessage", JStr(<<>>))>>))
      [] record.sns = "nodict" -> Raised
      [] record.sns = "dict" /\ record.message = "absent" ->
            Value(JObj(<<KV("RawMessage", JStr(<<>>))>>))
      [] record.sns = "dict" /\ record.message = "text" ->
            Value(JObj(<<KV("RawMessage", JStr(record.text))>>))
      [] record.sns = "dict" /\ record.message = "json" -> Value(record.value)

\* lines 38-42. Iterating `dims or []`: a list gives its elements, a dict its
\* keys, a str its characters, a number raises TypeError; d.get raises
\* AttributeError on anything that is no dict. The loop returns at the first
\* dimension named URL and never looks at the ones after it.
RECURSIVE ExtractFromList(_)
ExtractFromList(items) ==
    IF items = <<>> THEN Value(JNull)
    ELSE LET d == items[1]
         IN  IF ~IsDict(d) THEN Raised
             ELSE IF DictGet(d, "name", JNull) = JStr(Lit("URL"))
                     \/ DictGet(d, "Name", JNull) = JStr(Lit("URL"))
             THEN Value(PyOr(DictGet(d, "value", JNull), DictGet(d, "Value", JNull)))
             ELSE ExtractFromList(Tail(items))

\* faulty variant of _extract_url_from_dimensions: only the capitalised keys
\* "Name" and "Value" are looked up
RECURSIVE ExtractFromList_CapitalOnly(_)
ExtractFromList_CapitalOnly(items) ==
    IF items = <<>> THEN Value(JNull)
    ELSE LET d == items[1]
         IN  IF ~IsDict(d) THEN Raised
             ELSE IF DictGet(d, "Name", JNull) = JStr(Lit("URL"))
             THEN Value(DictGet(d, "Value", JNull))
             ELSE ExtractFromList_CapitalOnly(Tail(items))

_extract_url_from_dimensions_CapitalOnly(dims) ==
    IF Falsy(dims) THEN Value(JNull)
    ELSE CASE dims.t = "list" -> ExtractFromList_CapitalOnly(dims.items)
           [] dims.t = "obj"  -> Raised
           [] dims.t = "str"  -> Raised
           [] dims.t = "num"  -> Raised

_extract_url_from_dimensions(dims) ==
    IF Falsy(dims) THEN Value(JNull)
    ELSE CASE dims.t = "list" -> ExtractFromList(dims.items)
           [] dims.t = "obj"  -> Raised
           [] dims.t = "str"  -> Raised
           [] dims.t = "num"  -> Raised

\* faulty variant of NewStateReasonField: the slice is forgotten
NewStateReasonField_NoSlice(alarm) == PyStr(DictGet(alarm, "NewStateReason", JStr(<<>>)))

\* line 27
NewStateReasonField(alarm) ==
    Slice(PyStr(DictGet(alarm, "NewStateReason", JStr(<<>>))), ReasonLimit)

\* line 31
RawField(alarm) == Slice(Dumps(alarm), RawLimit)

\* lines 23-32: alarm.get raises AttributeError when the message parsed to
\* something that is no dict, and so does .get on a "Trigger" that is no dict.
BuildItem(alarm, now_iso) ==
    IF ~IsDict(alarm) THEN Raised
    ELSE LET trigger == DictGet(alarm, "Trigger", JObj(<<>>))
         IN  IF ~IsDict(trigger) THEN Raised
             ELSE LET url == _extract_url_from_dimensions(
                                 DictGet(trigger, "Dimensions", JList(<<>>)))
                  IN  IF url.raised THEN Raised
                      ELSE Value(
                        [AlarmName |-> PyStr(DictGet(alarm, "AlarmName", JStr(Lit("UnknownAlarm")))),
                         Timestamp |-> now_iso,
                         NewStateValue |-> PyStr(DictGet(alarm, "NewStateValue", JStr(Lit("UNKNOWN")))),
                         NewStateReason |-> NewStateReasonField(alarm),
                         MetricName |-> PyStr(DictGet(trigger, "MetricName", JStr(Lit("Unknown")))),
                         Namespace |-> PyStr(DictGet(trigger, "Namespace", JStr(<<>>))),
                         URL |-> url.value,
                         Raw |-> RawField(alarm)])

\* line 34 on the table of devops_canary_stack.py lines 86-91: the primary key
\* is (AlarmName, Timestamp), and put_item replaces the item that has the key
PutItem(tbl, item) ==
    {x \in tbl : ~(x.AlarmName = item.AlarmName /\ x.Timestamp = item.Timestamp)}
    \cup {item}

\* faulty variant of OnPutItem: the storage error is caught and dropped
OnPutItem_Swallow(ok) == "loop"

\* line 34: put_item is called bare, so its exception leaves the handler
OnPutItem(ok) == IF ok THEN "loop" ELSE "raised"

NoLast == [rec |-> 0, outcome |-> "none"]

\* line 13: an SNS delivery invokes the handler with event["Records"]
LoggerStart ==
    /\ lpc \in {"idle", "returned", "raised"}
    /\ \E n \in 0..MaxRecords : lleft' = n
    /\ lpc' = "loop"
    /\ last' = NoLast
    /\ UNCHANGED <<clock, table, nPut, cvars, avars, ovars>>

\* lines 13-34: one iteration of the for loop over the records
LoggerIterate ==
    /\ lpc = "loop"
    /\ lleft > 0
    /\ \E rec \in DOMAIN RecordInputs, now \in Readings(clock), putOk \in BOOLEAN :
         LET parsed == ParseRecord(RecordInputs[rec])
             built == IF parsed.raised THEN Raised ELSE BuildItem(parsed.value, now)
         IN  /\ now <= MaxClock
             /\ IF built.raised
                THEN /\ lpc' = "raised"
                     /\ last' = [rec |-> rec, outcome |-> "raised"]
                     /\ UNCHANGED <<lleft, clock, table, nPut>>
                ELSE /\ clock' = now
                     /\ lpc' = OnPutItem(putOk)
                     /\ IF putOk
                        THEN /\ nPut < MaxPuts
                             /\ table' = PutItem(table, built.value)
                             /\ nPut' = nPut + 1
                             /\ last' = [rec |-> rec, outcome |-> "written",
                                         item |-> built.value]
                        ELSE /\ last' = [rec |-> rec, outcome |-> "put_failed"]
                             /\ UNCHANGED <<table, nPut>>
                     /\ lleft' = lleft - 1
    /\ UNCHANGED <<cvars, avars, ovars>>

\* line 36
LoggerReturn ==
    /\ lpc = "loop"
    /\ lleft = 0
    /\ lpc' = "returned"
    /\ UNCHANGED <<lleft, clock, table, nPut, last, cvars, avars, ovars>>

LoggerNext == LoggerStart \/ LoggerIterate \/ LoggerReturn

(***************************************************************************)
(* devops_canary_stack.py: the alarms, and the evaluation CloudWatch runs  *)
(* on what they configure                                                  *)
(***************************************************************************)
MaxTicks == 3

LATENCY_THRESHOLD_MS == 1500

\* a datapoint is the exact rational num/den, or is missing
NoData == [present |-> FALSE]
Data(num, den) == [present |-> TRUE, num |-> num, den |-> den]

\* faulty variant of av_alarm: a comparator that is not strict
av_alarm_LessOrEqual(url) ==
    [id |-> <<"AvailAlarm", url>>, metric_name |-> "Availability", url |-> url,
     threshold |-> [num |-> 99, den |-> 100],
     evaluation_periods |-> 1, datapoints_to_alarm |-> 1,
     comparison_operator |-> "LESS_THAN_OR_EQUAL_TO_THRESHOLD",
     treat_missing_data |-> "BREACHING",
     alarm_actions |-> {"AvailabilityTopic"}, ok_actions |-> {"AvailabilityTopic"}]

\* faulty variant of av_alarm: no action is registered for entering ALARM
av_alarm_NoAlarmAction(url) ==
    [id |-> <<"AvailAlarm", url>>, metric_name |-> "Availability", url |-> url,
     threshold |-> [num |-> 99, den |-> 100],
     evaluation_periods |-> 1, datapoints_to_alarm |-> 1,
     comparison_operator |-> "LESS_THAN_THRESHOLD",
     treat_missing_data |-> "BREACHING",
     alarm_actions |-> {}, ok_actions |-> {"AvailabilityTopic"}]

\* faulty variant of av_alarm: two breaching periods in a row are asked for
av_alarm_TwoPeriods(url) ==
    [id |-> <<"AvailAlarm", url>>, metric_name |-> "Availability", url |-> url,
     threshold |-> [num |-> 99, den |-> 100],
     evaluation_periods |-> 2, datapoints_to_alarm |-> 2,
     comparison_operator |-> "LESS_THAN_THRESHOLD",
     treat_missing_data |-> "BREACHING",
     alarm_actions |-> {"AvailabilityTopic"}, ok_actions |-> {"AvailabilityTopic"}]

\* lines 164-176
av_alarm(url) ==
    [id |-> <<"AvailAlarm", url>>, metric_name |-> "Availability", url |-> url,
     threshold |-> [num |-> 99, den |-> 100],
     evaluation_periods |-> 1, datapoints_to_alarm |-> 1,
     comparison_operator |-> "LESS_THAN_THRESHOLD",
     treat_missing_data |-> "BREACHING",
     alarm_actions |-> {"AvailabilityTopic"}, ok_actions |-> {"AvailabilityTopic"}]

\* faulty variant of lt_alarm: the availability alarm's missing-data policy
lt_alarm_SharedMissingData(url) ==
    [id |-> <<"LatencyAlarm", url>>, metric_name |-> "Latency", url |-> url,
     threshold |-> [num |-> LATENCY_THRESHOLD_MS, den |-> 1],
     evaluation_periods |-> 1, datapoints_to_alarm |-> 1,
     comparison_operator |-> "GREATER_THAN_THRESHOLD",
     treat_missing_data |-> "BREACHING",
     alarm_actions |-> {"LatencyTopic"}, ok_actions |-> {"LatencyTopic"}]

\* lines 186-197
lt_alarm(url) ==
    [id |-> <<"LatencyAlarm", url>>, metric_name |-> "Latency", url |-> url,
     threshold |-> [num |-> LATENCY_THRESHOLD_MS, den |-> 1],
     evaluation_periods |-> 1, datapoints_to_alarm |-> 1,
     comparison_operator |-> "GREATER_THAN_THRESHOLD",
     treat_missing_data |-> "NOT_BREACHING",
     alarm_actions |-> {"LatencyTopic"}, ok_actions |-> {"LatencyTopic"}]

Range(f) == {f[i] : i \in DOMAIN f}

\* lines 153-197: the loop creates the two alarms of every url of the list
Alarms(urls) == {av_alarm(u) : u \in Range(urls)} \cup {lt_alarm(u) : u \in Range(urls)}

AlarmIds(urls) == {a.id : a \in Alarms(urls)}

\* comparison_operator applied to the datapoint and the threshold
Compare(op, dp, th) ==
    CASE op = "LESS_THAN_THRESHOLD" -> dp.num * th.den < th.num * dp.den
      [] op = "LESS_THAN_OR_EQUAL_TO_THRESHOLD" -> dp.num * th.den <= th.num * dp.den
      [] op = "GREATER_THAN_THRESHOLD" -> dp.num * th.den > th.num * dp.den
      [] op = "GREATER_THAN_OR_EQUAL_TO_THRESHOLD" -> dp.num * th.den >= th.num * dp.den

\* treat_missing_data decides a period without a datapoint
Breaching(alarm, dp) ==
    IF dp.present
    THEN Compare(alarm.comparison_operator, dp, alarm.threshold)
    ELSE alarm.treat_missing_data = "BREACHING"

\* the last k elements of s
LastOf(s, k) == SubSeq(s, IF Len(s) > k THEN Len(s) - k + 1 ELSE 1, Len(s))

\* the periods an evaluation looks at: the last evaluation_periods ones, this
\* one included, each as "did it breach"
Window(alarm, earlier, dp) ==
    LastOf(Append(earlier, Breaching(alarm, dp)), alarm.evaluation_periods)

\* ALARM when datapoints_to_alarm of the periods looked at breach, else OK.
\* With evaluation_periods = datapoints_to_alarm = 1 (lines 168-169 and
\* 190-191) the window is the one period that just ended.
Evaluate(alarm, window) ==
    IF Cardinality({i \in DOMAIN window : window[i]}) >= alarm.datapoints_to_alarm
    THEN "ALARM" ELSE "OK"

\* faulty variant of Notify: the action runs at every evaluation
Notify_EveryEvaluation(alarm, old, new) ==
    LET topics == IF new = "ALARM" THEN alarm.alarm_actions ELSE alarm.ok_actions
    IN  {[AlarmName |-> alarm.id, NewStateValue |-> new, OldStateValue |-> old, topic |-> t]
            : t \in topics}

\* lines 175-176 and 196-197, add_alarm_action / add_ok_action: the action of
\* the state the alarm enters is invoked when the state changes, and publishes
\* to the topic; no action is registered for INSUFFICIENT_DATA
Notify(alarm, old, new) ==
    LET topics == CASE new = old -> {}
                    [] new = "ALARM" -> alarm.alarm_actions
                    [] new = "OK" -> alarm.ok_actions
    IN  {[AlarmName |-> alarm.id, NewStateValue |-> new, OldStateValue |-> old, topic |-> t]
            : t \in topics}

AvDatapoints == {NoData, Data(0, 1), Data(989999, 1000000), Data(99, 100), Data(1, 1)}
LtDatapoints == {NoData, Data(0, 1), Data(120, 1), Data(1500, 1), Data(1501, 1)}

DatapointsOf(alarm) == IF alarm.metric_name = "Availability" THEN AvDatapoints ELSE LtDatapoints

\* one evaluation of one alarm at the end of a period
Tick ==
    /\ nTicks < MaxTicks
    /\ \E alarm \in Alarms(sites) : \E dp \in DatapointsOf(alarm) :
         LET old == alarmState[alarm.id]
             window == Window(alarm, recent[alarm.id], dp)
             new == Evaluate(alarm, window)
             sent == Notify(alarm, old, new)
         IN  /\ alarmState' = [alarmState EXCEPT ![alarm.id] = new]
             /\ recent' = [recent EXCEPT ![alarm.id] =
                                LastOf(window, alarm.evaluation_periods - 1)]
             /\ snsEvents' = IF sent = {} THEN snsEvents
                             ELSE Append(snsEvents, CHOOSE e \in sent : TRUE)
             /\ lastTick' = [ticked |-> TRUE, alarm |-> alarm, dp |-> dp, old |-> old]
             /\ nTicks' = nTicks + 1
    /\ UNCHANGED <<cvars, lvars, ovars>>

AlarmNext == Tick

(***************************************************************************)
(* The pipeline: scheduled crawler runs publish samples, the period ends   *)
(* and every alarm is evaluated on the average of the period's samples,    *)
(* the notifications reach the logger, which writes its items.             *)
(***************************************************************************)
MaxPeriods == 2     \* periods of one behaviour
MaxSamples == 100   \* crawler invocations whose samples fall in one period

Up120 == [kind |-> "status", code |-> 200, ms |-> 120]
Up1501 == [kind |-> "status", code |-> 200, ms |-> 1501]
NoContent1501 == [kind |-> "status", code |-> 204, ms |-> 1501]
Hung == [kind |-> "fail", why |-> "timeout"]

\* what the server of a target does with a probe, by the way it behaves
OutcomesOf(server) ==
    CASE server = "free"   -> {Up120, Up1501, NoContent1501, Hung}
      [] server = "up"     -> {Up120}
      [] server = "hung"   -> {Hung}
      [] server = "updown" -> {Up120, Hung}

Behaves(server, publish) == [server |-> server, publish |-> publish]

\* crawler.py lines 18-60 as one run from target i on: the put_metric_data
\* calls it makes and the way it ends. outs[i] is what the server of target i
\* does, failAt the target whose publish call raises (0: none does).
RECURSIVE CrawlFrom(_, _, _, _, _)
CrawlFrom(urls, i, el, outs, failAt) ==
    IF i > Len(urls) THEN [calls |-> <<>>, end |-> "returned"]
    ELSE IF el + Duration(outs[i]) >= CrawlerTimeoutSec * 1000
    THEN [calls |-> <<>>, end |-> "timed_out"]
    ELSE LET loc == ProbeLocals(outs[i])
             call == [Namespace |-> NAMESPACE,
                      MetricData |-> MetricData(urls[i], loc.status_val, loc.latency_ms),
                      ok |-> i # failAt]
         IN  IF i = failAt THEN [calls |-> <<call>>, end |-> "raised"]
             ELSE LET rest == CrawlFrom(urls, i + 1, el + Duration(outs[i]), outs, failAt)
                  IN  [calls |-> <<call>> \o rest.calls, end |-> rest.end]

\* the samples of the calls that succeeded
RECURSIVE Samples(_)
Samples(calls) ==
    IF calls = <<>> THEN <<>>
    ELSE (IF calls[1].ok THEN calls[1].MetricData ELSE <<>>) \o Samples(Tail(calls))

EmptySink(urls) ==
    [k \in {"Availability", "Latency"} \X Range(urls) |-> [sum |-> 0, n |-> 0]]

\* put_metric_data: each sample is kept under its metric name and URL dimension
RECURSIVE Store(_, _)
Store(snk, samples) ==
    IF samples = <<>> THEN snk
    ELSE LET x == samples[1]
             key == <<x.MetricName, x.Dimensions[1].Value>>
         IN  Store([snk EXCEPT ![key] = [sum |-> @.sum + x.Value, n |-> @.n + 1]],
                   Tail(samples))

\* devops_canary_stack.py lines 157-163 and 179-185: the datapoint of a period
\* is the Average of the samples with the alarm's metric name and URL
Aggregate(snk, alarm) ==
    LET x == snk[<<alarm.metric_name, alarm.url>>]
    IN  IF x.n = 0 THEN NoData ELSE Data(x.sum, x.n)

\* the alarm the loop of lines 153-197 creates under an id
AlarmOf(id) == IF id[1] = "AvailAlarm" THEN av_alarm(id[2]) ELSE lt_alarm(id[2])

AsSeq(S) == IF S = {} THEN <<>> ELSE <<CHOOSE e \in S : TRUE>>

\* the periods the evaluation of an alarm looks at, when the period whose
\* samples are in snk ends
WindowAfter(snk, id) == Window(AlarmOf(id), recent[id], Aggregate(snk, AlarmOf(id)))

\* the notifications of a period end after which the alarms have the states
\* after[id], in the order of the target list
RECURSIVE NotesFrom(_, _)
NotesFrom(after, i) ==
    IF i > Len(sites) THEN <<>>
    ELSE LET av == av_alarm(sites[i])
             lt == lt_alarm(sites[i])
         IN  AsSeq(Notify(av, alarmState[av.id], after[av.id]))
             \o AsSeq(Notify(lt, alarmState[lt.id], after[lt.id]))
             \o NotesFrom(after, i + 1)

\* what the servers of targets i, i + 1, ... can do in one run
RECURSIVE OutLists(_)
OutLists(i) ==
    IF i > Len(sites) THEN {<<>>}
    ELSE {<<o>> \o rest : o \in OutcomesOf(mode[sites[i]].server), rest \in OutLists(i + 1)}

\* the targets at which put_metric_data can raise, 0 for a run without failure
FailPoints == {0} \cup {i \in 1..Len(sites) : mode[sites[i]].publish = "free"}

\* lines 63-69: the schedule invokes the crawler; the whole run of the handler
\* (crawler.py lines 18-60) with the samples it leaves in the metric sink.
\* limit is the number of invocations whose samples fall in one period.
Crawl(limit, periods) ==
    /\ runs < limit
    /\ period < periods
    /\ \E outs \in OutLists(1), failAt \in FailPoints :
         \E run \in {CrawlFrom(sites, 1, 0, outs, failAt)} :
            \E published \in {Samples(run.calls)} :
               /\ sink' = Store(sink, published)
               /\ lastRun' = run.end
               /\ anyPubFailed' = (anyPubFailed \/ run.end = "raised")
    /\ runs' = runs + 1
    /\ UNCHANGED <<cvars, lvars, avars, mode, period, lastPeriod, inbox, kvars, svars>>

\* lines 153-197: the period (5 minutes, as the schedule) is over and every
\* alarm is evaluated on its datapoint; the actions of the alarms that change
\* state publish to their topic, to which the logger is subscribed.
PeriodEnd(periods) ==
    /\ period < periods
    /\ runs >= 1
    /\ \E window \in {[id \in DOMAIN alarmState |-> WindowAfter(sink, id)]} :
         \E after \in {[id \in DOMAIN alarmState |-> Evaluate(AlarmOf(id), window[id])]} :
            /\ alarmState' = after
            /\ recent' = [id \in DOMAIN recent |->
                            LastOf(window[id], AlarmOf(id).evaluation_periods - 1)]
            /\ inbox' = inbox \o NotesFrom(after, 1)
    /\ lastPeriod' = sink
    /\ sink' = EmptySink(sites)
    /\ period' = period + 1
    /\ runs' = 0
    /\ UNCHANGED <<cvars, lvars, snsEvents, nTicks, lastTick, mode, lastRun, anyPubFailed,
                   kvars, svars>>

\* the name CloudWatch gives the alarm in its notifications
AlarmNameText(id) == Lit(id[1]) \o Lit(id[2])

\* the message CloudWatch publishes for a notification
MessageOf(e) ==
    JObj(<<KV("AlarmName", JStr(AlarmNameText(e.AlarmName))),
           KV("NewStateValue", JStr(Lit(e.NewStateValue))),
           KV("NewStateReason", JStr(ShortReason)),
           KV("OldStateValue", JStr(Lit(e.OldStateValue))),
           KV("Trigger", JObj(<<KV("MetricName", JStr(Lit(AlarmOf(e.AlarmName).metric_name))),
                                KV("Namespace", JStr(Lit(NAMESPACE))),
                                KV("Dimensions", JList(<<Dimension("name", "value",
                                                         AlarmOf(e.AlarmName).url)>>))>>))>>)

PipeTargets ==
    {"https://a.example", "https://b.example", "https://c.example", "https://d.example"}

\* every notification the alarms of the pipeline can publish
PipeNotifications ==
    UNION {Notify(alarm, old, new) :
             alarm \in {av_alarm(u) : u \in PipeTargets} \cup {lt_alarm(u) : u \in PipeTargets},
             old \in {"INSUFFICIENT_DATA", "OK", "ALARM"},
             new \in {"OK", "ALARM"}}

\* alarm_logger.py lines 14-32 for each of them and each clock reading: the
\* item the handler builds, or that it raises (worked out once, looked up at
\* every delivery)
HandlerItem ==
    [e \in PipeNotifications, now \in 1..(MaxClock + 1) |->
        LET parsed == ParseRecord(JsonMessage(MessageOf(e)))
        IN  IF parsed.raised THEN Raised ELSE BuildItem(parsed.value, now)]

\* alarm_logger.py lines 9-36 for the event of one notification: SNS invokes
\* the handler with the oldest notification as the only record. When the
\* handler raises the notification is delivered again.
Deliver(putOk) ==
    /\ inbox # <<>>
    /\ \E now \in Readings(clock) :
         LET built == HandlerItem[Head(inbox), now]
         IN  /\ now <= MaxClock
             /\ IF built.raised
                THEN /\ last' = [rec |-> 0, outcome |-> "raised"]
                     /\ UNCHANGED <<clock, table, inbox>>
                ELSE /\ clock' = now
                     /\ IF OnPutItem(putOk) = "loop"
                        THEN /\ IF putOk THEN table' = PutItem(table, built.value)
                                         ELSE table' = table
                             /\ inbox' = Tail(inbox)
                             /\ last' = [rec |-> 0,
                                         outcome |-> IF putOk THEN "written" ELSE "dropped",
                                         item |-> built.value]
                        ELSE /\ last' = [rec |-> 0, outcome |-> "put_failed"]
                             /\ UNCHANGED <<table, inbox>>
    /\ UNCHANGED <<cvars, lpc, lleft, nPut, avars, mode, sink, period, runs, lastRun,
                   lastPeriod, anyPubFailed, kvars, svars>>

DeliverWritten == Deliver(TRUE)
DeliverFailed == Deliver(FALSE)

ScheduledCrawl == Crawl(1, MaxPeriods)
Period == PeriodEnd(MaxPeriods)
PipelineNext == ScheduledCrawl \/ Period \/ DeliverWritten \/ DeliverFailed

\* one period into which the samples of up to MaxSamples invocations fall,
\* for one target whose server answers or hangs and a sink that accepts all
AnyCrawl == Crawl(MaxSamples, 1)
OnePeriod == PeriodEnd(1)
PeriodNext == AnyCrawl \/ OnePeriod

(***************************************************************************)
(* alarm_logger.py under concurrent deliveries: SNS invokes the handler    *)
(* once per notification, with that notification as the only record, and  *)
(* the invocations run side by side on the same table.                     *)
(***************************************************************************)
MaxInvocations == 2

\* the notifications delivered, a duplicate delivery being the same one again
ConcurrentRecords == WellFormedRecords \o <<NoUrlRecord, SecondDimensionRecord>>

\* lines 13-19: the invocation starts and parses its record
ConcurrentStart(i) ==
    /\ inv[i].pc = "idle"
    /\ \E rec \in DOMAIN ConcurrentRecords :
         inv' = [inv EXCEPT ![i] = [pc |-> "parsed", rec |-> rec,
                                    alarm |-> ParseRecord(ConcurrentRecords[rec]).value]]
    /\ UNCHANGED <<cvars, lvars, avars, pvars, svars>>

\* lines 21-32: the clock is read and the item is built
ConcurrentBuild(i) ==
    /\ inv[i].pc = "parsed"
    /\ \E now \in Readings(clock) :
         /\ now <= MaxClock
         /\ clock' = now
         /\ inv' = [inv EXCEPT ![i] = [pc |-> "built", rec |-> inv[i].rec,
                                       item |-> BuildItem(inv[i].alarm, now).value]]
    /\ UNCHANGED <<cvars, lpc, lleft, table, nPut, last, avars, pvars, svars>>

\* lines 34-36: put_item, then the return; a failing put_item raises
ConcurrentPut(i) ==
    /\ inv[i].pc = "built"
    /\ \E putOk \in BOOLEAN :
         IF putOk
         THEN /\ table' = PutItem(table, inv[i].item)
              /\ inv' = [inv EXCEPT ![i] = [pc |-> "returned", rec |-> inv[i].rec,
                                            item |-> inv[i].item]]
         ELSE /\ inv' = [inv EXCEPT ![i] = [pc |-> "raised", rec |-> inv[i].rec]]
              /\ UNCHANGED table
    /\ UNCHANGED <<cvars, lpc, lleft, clock, nPut, last, avars, pvars, svars>>

ConcurrentNext ==
    \E i \in 1..MaxInvocations : ConcurrentStart(i) \/ ConcurrentBuild(i) \/ ConcurrentPut(i)

(***************************************************************************)
(* devops_canary_stack.py: the construct ids of the alarms.  Here a url is *)
(* the sequence of its characters.                                         *)
(***************************************************************************)
FragmentLimit == 60

AlnumChars ==
    {"a", "b", "c", "d", "e", "f", "g", "h", "i", "j", "k", "l", "m",
     "n", "o", "p", "q", "r", "s", "t", "u", "v", "w", "x", "y", "z",
     "A", "B", "C", "D", "E", "F", "G", "H", "I", "J", "K", "L", "M",
     "N", "O", "P", "Q", "R", "S", "T", "U", "V", "W", "X", "Y", "Z",
     "0", "1", "2", "3", "4", "5", "6", "7", "8", "9"}

IsAlnum(c) == c \in AlnumChars

\* lines 33-36: re.sub(r"[^A-Za-z0-9]", "", url), then s[:60] or "URL"
_to_id_fragment(url) ==
    LET s == SelectSeq(url, IsAlnum)
        head == SubSeq(s, 1, IF Len(s) < FragmentLimit THEN Len(s) ELSE FragmentLimit)
    IN  IF head = <<>> THEN <<"U", "R", "L">> ELSE head

\* lines 165 and 187: f"AvailAlarm{frag}" and f"LatencyAlarm{frag}"
AvailAlarmId(frag) == <<"A", "v", "a", "i", "l", "A", "l", "a", "r", "m">> \o frag
LatencyAlarmId(frag) ==
    <<"L", "a", "t", "e", "n", "c", "y", "A", "l", "a", "r", "m">> \o frag

\* the urls a sites.json is made of
LongPath == [i \in 1..FragmentLimit |-> "p"]

StackUrls ==
    { <<"h", "t", "t", "p", "s", ":", "/", "/", "a", "b", ".", "i", "o">>,
      <<"h", "t", "t", "p", "s", ":", "/", "/", "a", "-", "b", ".", "i", "o">>,
      <<"h", "t", "t", "p", ":", "/", "/", "a", "b", ".", "i", "o">>,
      <<"h", "t", "t", "p", "s", ":", "/", "/", "x", ".", "i", "o", "/">> \o LongPath \o <<"1">>,
      <<"h", "t", "t", "p", "s", ":", "/", "/", "x", ".", "i", "o", "/">> \o LongPath \o <<"2">>,
      <<>> }

\* lines 153-197, one iteration of the loop: the two alarms of a url are
\* added to the stack under their ids; a construct id that is taken makes
\* the construct library raise, and the synthesis fails
StackAddAlarms ==
    /\ stack.pc = "loop"
    /\ stack.i <= Len(sites)
    /\ LET frag == _to_id_fragment(sites[stack.i])
           new == {AvailAlarmId(frag), LatencyAlarmId(frag)}
       IN  IF new \cap stack.ids # {}
           THEN stack' = [stack EXCEPT !.pc = "failed"]
           ELSE stack' = [stack EXCEPT !.i = @ + 1, !.ids = @ \cup new]
    /\ UNCHANGED <<cvars, lvars, avars, pvars, kvars>>

\* the loop is over: the stack is synthesized
StackDone ==
    /\ stack.pc = "loop"
    /\ stack.i > Len(sites)
    /\ stack' = [stack EXCEPT !.pc = "done"]
    /\ UNCHANGED <<cvars, lvars, avars, pvars, kvars>>

StackNext == StackAddAlarms \/ StackDone

(***************************************************************************)
(* Specifications                                                          *)
(***************************************************************************)
\* sites.json holds distinct urls (the stack builds one construct id per url)
SiteLists == {s \in SeqsUpTo(Targets, MaxSites) : \A i, j \in DOMAIN s : i # j => s[i] # s[j]}

\* the state after deployment, for a given target list
InitRest ==
    /\ cpc = "idle"
    /\ ci = 1
    /\ results = <<>>
    /\ putCalls = <<>>
    /\ probes = <<>>
    /\ elapsed = 0
    /\ lpc = "idle"
    /\ lleft = 0
    /\ clock = 1
    /\ table = {}
    /\ nPut = 0
    /\ last = NoLast
    /\ alarmState = [a \in AlarmIds(sites) |-> "INSUFFICIENT_DATA"]
    /\ snsEvents = <<>>
    /\ nTicks = 0
    /\ lastTick = [ticked |-> FALSE]
    /\ recent = [a \in AlarmIds(sites) |-> <<>>]
    /\ sink = EmptySink(sites)
    /\ period = 0
    /\ runs = 0
    /\ lastRun = "none"
    /\ lastPeriod = EmptySink(sites)
    /\ inbox = <<>>
    /\ anyPubFailed = FALSE
    /\ inv = [i \in 1..MaxInvocations |-> [pc |-> "idle"]]
    /\ stack = [pc |-> "loop", i |-> 1, ids |-> {}]

Init ==
    /\ sites \in SiteLists
    /\ mode = [u \in Range(sites) |-> Behaves("free", "free")]
    /\ InitRest

SpecCrawler == Init /\ [][CrawlerNext]_vars
SpecAlarm == Init /\ [][AlarmNext]_vars

\* the logger reads nothing of the target list
InitLogger == Init /\ sites = <<>>
SpecLogger == InitLogger /\ [][LoggerNext]_vars

\* The target lists and servers the pipeline is run with: one target whose
\* server does anything; a server that never answers ahead of a healthy one;
\* three servers that never answer ahead of a healthy one (with a sink that
\* accepts every publish call; in the other two the calls can fail).
PipeWorlds ==
    { [sites |-> <<"https://a.example">>,
       mode |-> [u \in {"https://a.example"} |-> Behaves("free", "free")]],
      [sites |-> <<"https://a.example", "https://b.example">>,
       mode |-> [u \in {"https://a.example", "https://b.example"} |->
                    IF u = "https://b.example" THEN Behaves("up", "free")
                                               ELSE Behaves("hung", "free")]],
      [sites |-> <<"https://a.example", "https://b.example", "https://c.example",
                   "https://d.example">>,
       mode |-> [u \in {"https://a.example", "https://b.example", "https://c.example",
                        "https://d.example"} |->
                    IF u = "https://d.example" THEN Behaves("up", "ok")
                                               ELSE Behaves("hung", "ok")]] }

InitPipeline ==
    /\ \E w \in PipeWorlds : sites = w.sites /\ mode = w.mode
    /\ InitRest

SpecPipeline == InitPipeline /\ [][PipelineNext]_vars

\* Every period has its scheduled invocation and its evaluation, and a
\* notification is delivered again until the logger has written it; run with
\* the target lists that have a server that never answers.
InitOutage == InitPipeline /\ \E u \in Range(sites) : mode[u].server = "hung"

FairPipeline ==
    /\ InitOutage
    /\ [][PipelineNext]_vars
    /\ WF_vars(ScheduledCrawl)
    /\ WF_vars(Period)
    /\ WF_vars(DeliverWritten)

InitConcurrent == Init /\ sites = <<>>
SpecConcurrent == InitConcurrent /\ [][ConcurrentNext]_vars

\* any list of distinct urls
StackSiteLists ==
    {s \in SeqsUpTo(StackUrls, MaxSites) : \A i, j \in DOMAIN s : i # j => s[i] # s[j]}

InitStack ==
    /\ sites \in StackSiteLists
    /\ mode = [u \in Range(sites) |-> Behaves("free", "free")]
    /\ InitRest

SpecStack == InitStack /\ [][StackNext]_vars

InitPeriod ==
    /\ sites = <<"https://a.example">>
    /\ mode = [u \in {"https://a.example"} |-> Behaves("updown", "ok")]
    /\ InitRest

SpecPeriod == InitPeriod /\ [][PeriodNext]_vars

(***************************************************************************)
(* Crawler claims (SpecCrawler)                                            *)
(***************************************************************************)
RunEnded == cpc \in {"returned", "raised"}

AllPublishesOk == \A i \in DOMAIN putCalls : putCalls[i].ok

UrlDimension(url) == <<[Name |-> "URL", Value |-> url]>>

\* C1: a failed put_metric_data for one target does not abort the batch: every
\* run that ends has probed every target, has issued one publish call for
\* every target (none retried), and has returned normally.
C1_PublishFailureDoesNotAbort ==
    RunEnded =>
        /\ Len(probes) = Len(sites)
        /\ Len(putCalls) = Len(sites)
        /\ cpc = "returned"

C3_AvailabilityIffStatus200 ==
    \A i \in DOMAIN putCalls :
        LET out == probes[i]
            md == putCalls[i].MetricData
            is200 == out.kind = "status" /\ out.code = 200
            errored == out.kind = "fail" \/ (out.kind = "status" /\ out.code >= 400)
        IN  /\ Len(md) = 2
            /\ md[1].MetricName = "Availability"
            /\ md[1].Value = (IF is200 THEN 1 ELSE 0)
            /\ md[2].MetricName = "Latency"
            /\ errored => md[2].Value = 0

\* C3 witness: one run has published a refused connection as (0, 0) and a
\* 204 answer as Availability 0.
C3_Witness ==
    /\ Len(putCalls) = 2
    /\ probes[1] = [kind |-> "fail", why |-> "refused"]
    /\ putCalls[1].MetricData[1].Value = 0
    /\ putCalls[1].MetricData[2].Value = 0
    /\ probes[2].kind = "status" /\ probes[2].code = 204
    /\ putCalls[2].MetricData[1].Value = 0

\* C14: an invocation probes and publishes every target of the list and
\* returns before its 30 seconds are over, however many of the targets hang
\* until the 10 second probe timeout: the runtime never ends it half way.
C14_BatchWithinBudget ==
    /\ elapsed < CrawlerTimeoutSec * 1000
    /\ cpc # "timed_out"

(***************************************************************************)
(* Logger claims (SpecLogger)                                              *)
(***************************************************************************)
\* the alarm dict the handler builds for the last record processed
LastAlarm == ParseRecord(RecordInputs[last.rec]).value

\* p is the first characters of s
IsPrefix(p, s) ==
    /\ Len(p) <= Len(s)
    /\ \A i \in 1..(Len(p) - 1) : p[i] = s[i]
    /\ p # <<>> => /\ p[Len(p)].ch = s[Len(p)].ch
                   /\ p[Len(p)].n <= s[Len(p)].n

Min(a, b) == IF a <= b THEN a ELSE b

\* C4: a record whose payload is not of the expected shape still gets
\* exactly one (degraded) item written, and the handler does not raise because
\* of it (a failing put_item is another matter).
C4_MalformedStillLogged ==
    (last.rec # 0 /\ IsMalformed(RecordInputs[last.rec]) /\ last.outcome # "put_failed") =>
        /\ last.outcome = "written"
        /\ lpc # "raised"
        /\ last.item \in table

\* C5: when put_item fails the handler is left by the exception: it does not
\* go on with the loop and does not return {statusCode: 200}.
C5_StoreFailureSurfaces ==
    /\ last.outcome = "put_failed" => lpc = "raised"
    /\ lpc = "returned" => last.outcome \in {"none", "written"}

\* C5 witness: the first record of an event was written, put_item failed for
\* the second one, and the handler raised.
C5_Witness ==
    /\ last.outcome = "put_failed"
    /\ lpc = "raised"
    /\ nPut = 1
    /\ Cardinality(table) = 1

\* C6: the log is append-only with one item per processed event: the table
\* holds as many items as there were successful writes, same alarm and same
\* clock reading included.
C6_OneItemPerEvent == Cardinality(table) = nPut

\* C10: every item written has NewStateReason of at most 1000 characters and
\* Raw of at most 3500, and they are the first 1000 characters of the event's
\* reason and the first 3500 of the JSON-serialized payload.
C10_BoundedReasonAndRaw ==
    /\ \A item \in table : /\ StrLen(item.NewStateReason) <= 1000
                           /\ StrLen(item.Raw) <= 3500
    /\ last.outcome = "written" =>
         LET reason == PyStr(DictGet(LastAlarm, "NewStateReason", JStr(<<>>)))
             raw == Dumps(LastAlarm)
         IN  /\ IsPrefix(last.item.NewStateReason, reason)
             /\ StrLen(last.item.NewStateReason) = Min(StrLen(reason), 1000)
             /\ IsPrefix(last.item.Raw, raw)
             /\ StrLen(last.item.Raw) = Min(StrLen(raw), 3500)

\* C10 witness: an item was written for an event whose reason is longer than
\* 1000 characters and whose serialized payload is longer than 3500, and the
\* item holds exactly 1000 and 3500 of them.
C10_Witness ==
    /\ last.outcome = "written"
    /\ last.item \in table
    /\ StrLen(PyStr(DictGet(LastAlarm, "NewStateReason", JStr(<<>>)))) > 1000
    /\ StrLen(Dumps(LastAlarm)) > 3500
    /\ StrLen(last.item.NewStateReason) = 1000
    /\ StrLen(last.item.Raw) = 3500

(***************************************************************************)
(* Alarm claims (SpecAlarm)                                                *)
(***************************************************************************)
LastAlarmState == alarmState[lastTick.alarm.id]

\* C7: a tick without a datapoint leaves the availability alarm in ALARM and
\* the latency alarm in OK, whatever the state before the tick.
C7_MissingDataPolicy ==
    (lastTick.ticked /\ ~lastTick.dp.present) =>
        /\ lastTick.alarm.metric_name = "Availability" => LastAlarmState = "ALARM"
        /\ lastTick.alarm.metric_name = "Latency" => LastAlarmState = "OK"

\* C7 witness: a latency alarm that was in ALARM got a tick without a
\* datapoint and is in OK.
C7_Witness ==
    /\ lastTick.ticked
    /\ ~lastTick.dp.present
    /\ lastTick.alarm.metric_name = "Latency"
    /\ lastTick.old = "ALARM"
    /\ LastAlarmState = "OK"

C9_EventOnEveryTick == Len(snsEvents) = nTicks

\* C9 as amended: a tick that changes the alarm's state emits exactly one
\* event carrying the new state; a tick that re-confirms the state emits none.
C9_EventOnStateChangeOnly ==
    [][nTicks' = nTicks + 1 =>
         LET id == lastTick'.alarm.id
         IN  IF alarmState'[id] # alarmState[id]
             THEN /\ Len(snsEvents') = Len(snsEvents) + 1
                  /\ SubSeq(snsEvents', 1, Len(snsEvents)) = snsEvents
                  /\ snsEvents'[Len(snsEvents')].AlarmName = id
                  /\ snsEvents'[Len(snsEvents')].NewStateValue = alarmState'[id]
             ELSE snsEvents' = snsEvents]_vars

\* C9 witness: after an alarm entered ALARM (one event), a second tick of the
\* same alarm re-confirmed ALARM and no second event was published.
C9_Witness ==
    /\ nTicks = 2
    /\ lastTick.old = "ALARM"
    /\ LastAlarmState = "ALARM"
    /\ Len(snsEvents) = 1
    /\ snsEvents[1].AlarmName = lastTick.alarm.id

\* C17: the state after a tick is decided by that tick's datapoint (or its
\* absence) and the kind of alarm alone: ALARM when the datapoint breaches,
\* OK when it does not, whatever the state before; no earlier period counts.
C17_NoSmoothing ==
    /\ \A id \in DOMAIN recent : recent[id] = <<>>
    /\ lastTick.ticked =>
         LET dp == lastTick.dp
             breach == IF lastTick.alarm.metric_name = "Availability"
                       THEN ~dp.present \/ dp.num * 100 < 99 * dp.den
                       ELSE dp.present /\ dp.num > 1500 * dp.den
         IN  LastAlarmState = IF breach THEN "ALARM" ELSE "OK"

\* C17 witness: an alarm that was in ALARM is back in OK after one tick with
\* one datapoint that does not breach.
C17_Witness ==
    /\ lastTick.ticked
    /\ nTicks >= 2
    /\ lastTick.old = "ALARM"
    /\ lastTick.dp.present
    /\ LastAlarmState = "OK"

(***************************************************************************)
(* End-to-end claims (SpecPipeline, FairPipeline, SpecPeriod)              *)
(***************************************************************************)
AvailId(u) == <<"AvailAlarm", u>>
LatencyId(u) == <<"LatencyAlarm", u>>

\* the table holds an item that records the availability alarm of u in ALARM
HasAlarmRecord(u) ==
    \E item \in table : /\ item.AlarmName = AlarmNameText(AvailId(u))
                         /\ item.NewStateValue = Lit("ALARM")

\* the server of u never answers: every probe of u runs into the timeout
TimesOut(u) == u \in Range(sites) /\ mode[u].server = "hung"

\* C12: when a target times out on every probe, its availability alarm is in
\* ALARM from the first period end on, and an item with NewStateValue ALARM
\* for that alarm is eventually written to the table.
C12_OutageAlarmsAndIsLogged ==
    /\ [](\A u \in PipeTargets :
            TimesOut(u) /\ period >= 1 => alarmState[AvailId(u)] = "ALARM")
    /\ (period >= 1) ~> (\A u \in PipeTargets : TimesOut(u) => HasAlarmRecord(u))

\* C12 witness: two periods are over, the first target timed out in both, its
\* availability alarm is in ALARM and the table holds the ALARM item.
C12_Witness ==
    /\ period = 2
    /\ TimesOut("https://a.example")
    /\ alarmState[AvailId("https://a.example")] = "ALARM"
    /\ HasAlarmRecord("https://a.example")

\* the server of u answers every probe with 200 after 120 ms, and no publish
\* call has failed
Healthy(u) == u \in Range(sites) /\ mode[u].server = "up" /\ ~anyPubFailed

\* C13: for a target that answers every probe with 200 in 120 ms, while every
\* publish call succeeds, every Availability sample is 1 and every Latency
\* sample 120, the availability alarm is never in ALARM and is OK once
\* evaluated, and no item with NewStateValue ALARM is written for it.
C13_HealthyTargetNeverAlarms ==
    \A u \in PipeTargets :
        Healthy(u) =>
            /\ \A snk \in {sink, lastPeriod} :
                  /\ snk[<<"Availability", u>>].sum = snk[<<"Availability", u>>].n
                  /\ snk[<<"Latency", u>>].sum = 120 * snk[<<"Latency", u>>].n
            /\ alarmState[AvailId(u)] # "ALARM"
            /\ period >= 1 => alarmState[AvailId(u)] = "OK"
            /\ ~HasAlarmRecord(u)

\* C19: after a period in which no probe of a target found it available (its
\* Availability samples are all 0, or there are none), the target's latency
\* alarm is not in ALARM and its availability alarm is.
C19_NoDoubleAlerting ==
    \A u \in PipeTargets :
        (u \in Range(sites) /\ period >= 1 /\ lastPeriod[<<"Availability", u>>].sum = 0) =>
            /\ alarmState[LatencyId(u)] # "ALARM"
            /\ alarmState[AvailId(u)] = "ALARM"

\* C16: after a period in which at least one Availability sample of the
\* target was 0, the availability alarm is in ALARM, however many samples
\* fell in the period.
C16_AnyFailedSampleAlarms ==
    LET x == lastPeriod[<<"Availability", "https://a.example">>]
    IN  (period >= 1 /\ x.sum < x.n) => alarmState[AvailId("https://a.example")] = "ALARM"

(***************************************************************************)
(* Logger claims on single deliveries (SpecConcurrent)                     *)
(***************************************************************************)
\* the positions of the dimensions named URL in a notification's
\* Trigger.Dimensions, and the value such a dimension carries, whichever way
\* the two keys are cased
UrlDimensions(alarm) ==
    LET dims == DictGet(DictGet(alarm, "Trigger", JNull), "Dimensions", JNull).items
    IN  {i \in DOMAIN dims : \E k \in {"name", "Name"} :
                                 HasKey(dims[i], k) /\ DictGet(dims[i], k, JNull) = JStr(Lit("URL"))}

DimensionValue(alarm, i) ==
    LET d == DictGet(DictGet(alarm, "Trigger", JNull), "Dimensions", JNull).items[i]
    IN  IF HasKey(d, "value") THEN DictGet(d, "value", JNull) ELSE DictGet(d, "Value", JNull)

\* C11: the item that put_item wrote for a well-formed notification has the
\* notification's AlarmName and NewStateValue and, as URL, the value of the
\* dimension named URL under either casing of the keys; URL is null exactly
\* when the notification has no dimension named URL.
C11_FieldsOfWellFormedEvent ==
    \A k \in 1..MaxInvocations :
        inv[k].pc = "returned" =>
            LET item == inv[k].item
                alarm == ConcurrentRecords[inv[k].rec].value
            IN  /\ JStr(item.AlarmName) = DictGet(alarm, "AlarmName", JNull)
                /\ JStr(item.NewStateValue) = DictGet(alarm, "NewStateValue", JNull)
                /\ UrlDimensions(alarm) = {} <=> item.URL = JNull
                /\ \A i \in UrlDimensions(alarm) :
                       (\A j \in UrlDimensions(alarm) : i <= j) =>
                           item.URL = DimensionValue(alarm, i)

\* C11 witness: an item was written for a notification whose URL dimension
\* comes with the keys "name" and "Value" and is the target's URL.
C11_Witness ==
    \E k \in 1..MaxInvocations :
        /\ inv[k].pc = "returned"
        /\ \E i \in UrlDimensions(ConcurrentRecords[inv[k].rec].value) :
              LET d == DictGet(DictGet(ConcurrentRecords[inv[k].rec].value, "Trigger", JNull),
                               "Dimensions", JNull).items[i]
              IN  HasKey(d, "name") /\ HasKey(d, "Value")
        /\ inv[k].item \in table
        /\ inv[k].item.URL = JStr(Lit("https://b.example"))
        /\ inv[k].item.AlarmName = Lit("LatencyAlarmB")
        /\ inv[k].item.NewStateValue = Lit("ALARM")

\* the deliveries of notifications of the alarm with this name that were
\* written (the handler returned)
WrittenFor(name) ==
    {i \in 1..MaxInvocations : inv[i].pc = "returned" /\ inv[i].item.AlarmName = name}

\* C15: whatever the interleaving of the invocations, every delivery that was
\* written has its own item under its alarm's name: per alarm the table holds
\* as many items as deliveries were written for it, a duplicate delivery
\* included, and no write changes the number of items of another alarm.
C15_OneItemPerDelivery ==
    \A name \in {Lit("AvailAlarmA"), Lit("LatencyAlarmB")} :
        Cardinality({item \in table : item.AlarmName = name}) = Cardinality(WrittenFor(name))

(***************************************************************************)
(* Construct id claim (SpecStack)                                          *)
(***************************************************************************)
\* C18: the stack gets one availability alarm and one latency alarm per
\* target: the ids built for distinct urls are distinct, so that no id is
\* taken twice and the synthesis does not fail.
C18_DistinctAlarmIds ==
    /\ \A i, j \in 1..(stack.i - 1) :
          i # j => /\ AvailAlarmId(_to_id_fragment(sites[i])) # AvailAlarmId(_to_id_fragment(sites[j]))
                   /\ LatencyAlarmId(_to_id_fragment(sites[i])) # LatencyAlarmId(_to_id_fragment(sites[j]))
    /\ stack.pc # "failed"
    /\ stack.pc = "done" => Cardinality(stack.ids) = 2 * Len(sites)

====
